---- MODULE Spec2Model ----
(***************************************************************************)
(* Model of the lunatic-rs guest library as exercised by                   *)
(* examples/deadlock.rs, examples/deadlock_timer.rs and                    *)
(* src/environment.rs: actor processes with mailboxes, blocking requests   *)
(* with timeouts, delayed self-ticks, links, and the versioned registry.   *)
(***************************************************************************)
EXTENDS Integers, Sequences, FiniteSets, Bags, TLC

VARIABLES
    example,    \* which main() is running
    mpc,        \* main: index of the next instruction of its program
    mwait,      \* main: correlation tag of the request it is blocked on, or 0
    mtimer,     \* main: << time left of the pending request's timeout >>, or << >>
    mres,       \* main: results of the requests it has completed, in call order
    alive,      \* process -> "unborn" | "running" | "dead"
    field,      \* actor -> its Option field (A.b, B.a) or Timer.interval
    mbox,       \* process -> mailbox, a sequence of envelopes
    cur,        \* actor -> frames of the handlers in progress
    delayed,    \* bag of the delayed sends not yet released
    links,      \* set of two-element sets of linked processes
    signals,    \* link-death signals in flight, << dead process, peer >>
    nextTag,    \* next fresh correlation tag
    sent,       \* << sender, receiver >> -> number of direct sends so far
    handled,    \* << sender, receiver >> -> sequence number last dispatched
    log,        \* history: what each request and dispatch did
    env,        \* the Environment value held by the root process, and its call in progress
    trapExit,   \* the processes that take a link death as a message
    ghost,      \* history: who spawned whom, which link deaths were delivered
    reg,        \* the registry of the environment: set of entries
    last,       \* the most recent registry call and its result, at most one record
    quota,      \* configurations: the one being built, the environment's, each process's
    params,     \* the spawn parameters last serialized, and their bytes
    tcp         \* the TcpListener::bind call in progress or last made

regVars == << reg, last >>
auxVars == << quota, params, tcp >>
envVars == << env, trapExit, regVars, auxVars >>

vars == << example, mpc, mwait, mtimer, mres, alive, field, mbox, cur, delayed,
           links, signals, nextTag, sent, handled, log, env, trapExit, ghost, reg, last,
           quota, params, tcp >>

None == "none"
Procs == {"main", "A", "B", "Timer"}
Actors == {"A", "B", "Timer"}
Examples == {"deadlock", "deadlock_timer", "probe"}

TickDelay == 100
TimerInterval == 1000
RequestTimeout == 5000

Min(S) == CHOOSE x \in S : \A y \in S : x <= y

(***************************************************************************)
(* Envelopes.  kind is "msg" (fire-and-forget), "req" (expects one reply   *)
(* to tag) or "reply" (the reply to tag).  seq numbers the direct sends of *)
(* one sender to one receiver; delayed sends and replies carry seq 0.      *)
(***************************************************************************)
Envelope(kind, name, from, seq, tag, arg) ==
    [kind |-> kind, name |-> name, from |-> from, seq |-> seq, tag |-> tag, arg |-> arg]

(***************************************************************************)
(* The main functions, as instruction lists.                               *)
(***************************************************************************)
\* A::link().start(arg): spawn the actor linked to the caller.
Spawn(p, arg) == [op |-> "spawn_link", to |-> p, name |-> "init", arg |-> arg, timeout |-> << >>]
Send(p, name, arg) == [op |-> "send", to |-> p, name |-> name, arg |-> arg, timeout |-> << >>]
\* t is << d >> for with_timeout(d), << >> for a request without timeout.
Request(p, name, t) == [op |-> "request", to |-> p, name |-> name, arg |-> None, timeout |-> t]

\* Result of a request: the reply value, or Timeout.
Ok(v) == [ok |-> TRUE, val |-> v]
Timeout == [ok |-> FALSE, val |-> 0]

\* main of deadlock.rs with b.connect2(a) moved after the first test1 call.
DeadlockMain_ConnectLate ==
    << Spawn("A", None), Spawn("B", None),
       Send("A", "connect1", "B"),
       Request("A", "test1", << >>),
       Send("B", "connect2", "A"),
       Request("A", "test1", << RequestTimeout >>),
       Request("A", "test1", << RequestTimeout >>) >>

DeadlockMain ==
    << Spawn("A", None), Spawn("B", None),
       Send("A", "connect1", "B"), Send("B", "connect2", "A"),
       Request("A", "test1", << >>),
       Request("A", "test1", << RequestTimeout >>),
       Request("A", "test1", << RequestTimeout >>) >>

\* main of deadlock_timer.rs with its first test1 call made without a timeout.
DeadlockTimerMain_FirstCallUntimed ==
    << Spawn("Timer", TimerInterval), Spawn("A", None), Spawn("B", None),
       Send("A", "connect1", "B"), Send("B", "connect2", "A"),
       Send("A", "tick1", None), Request("A", "test1", << >>),
       Send("A", "tick1", None), Request("A", "test1", << RequestTimeout >>),
       Send("A", "tick1", None), Request("A", "test1", << >>),
       Send("A", "tick1", None) >>

\* main of deadlock_timer.rs without b.connect2(a).
DeadlockTimerMain_NoConnect2 ==
    << Spawn("Timer", TimerInterval), Spawn("A", None), Spawn("B", None),
       Send("A", "connect1", "B"),
       Send("A", "tick1", None), Request("A", "test1", << RequestTimeout >>),
       Send("A", "tick1", None), Request("A", "test1", << RequestTimeout >>),
       Send("A", "tick1", None), Request("A", "test1", << >>),
       Send("A", "tick1", None) >>

DeadlockTimerMain ==
    << Spawn("Timer", TimerInterval), Spawn("A", None), Spawn("B", None),
       Send("A", "connect1", "B"), Send("B", "connect2", "A"),
       Send("A", "tick1", None), Request("A", "test1", << RequestTimeout >>),
       Send("A", "tick1", None), Request("A", "test1", << RequestTimeout >>),
       Send("A", "tick1", None), Request("A", "test1", << >>),
       Send("A", "tick1", None) >>

\* A driver over the actors of deadlock.rs in which replies are produced:
\* req2 before and after connect2, then test1 on an A that was never connected.
ProbeMain ==
    << Spawn("A", None), Spawn("B", None),
       Request("B", "req2", << RequestTimeout >>),
       Send("B", "connect2", "A"),
       Request("B", "req2", << RequestTimeout >>),
       Request("A", "req1", << RequestTimeout >>),
       Request("A", "test1", << RequestTimeout >>) >>

Program(ex) ==
    CASE ex = "deadlock" -> DeadlockMain
      [] ex = "deadlock_timer" -> DeadlockTimerMain
      [] OTHER -> ProbeMain

(***************************************************************************)
(* Handlers.  Each gives the outcome of running the handler body on the    *)
(* actor's field: the new field, the delayed self-sends it makes, and how  *)
(* it ends: "done" (message handler), "reply" with val, "call" (a blocking *)
(* request of name to the process `to`, whose result is the handler's      *)
(* reply) or "panic".                                                      *)
(***************************************************************************)
Outcome(f, after, end, to, name, val) ==
    [field |-> f, after |-> after, end |-> end, to |-> to, name |-> name, val |-> val]

\* send_after with the delay left out.
Arm_NoDelay(p, name, delay) == SetToBag({[to |-> p, name |-> name, rem |-> 0]})

Arm(p, name, delay) == SetToBag({[to |-> p, name |-> name, rem |-> delay]})

A_init(ex) ==
    IF ex = "deadlock_timer"
    THEN Outcome(None, Arm("A", "tick1", TickDelay), "done", None, None, None)
    ELSE Outcome(None, EmptyBag, "done", None, None, None)

A_connect1(b, arg) == Outcome(arg, EmptyBag, "done", None, None, None)

\* req1 returning without a reply being sent.
A_req1_NoReply(b) == Outcome(b, EmptyBag, "done", None, None, None)

A_req1(b) == Outcome(b, EmptyBag, "reply", None, None, 1)

\* tick1 re-arming twice.
A_tick1_Twice(b) ==
    Outcome(b, Arm("A", "tick1", TickDelay) (+) Arm("A", "tick1", TickDelay), "done",
            None, None, None)

A_tick1(b) == Outcome(b, Arm("A", "tick1", TickDelay), "done", None, None, None)

\* test1 answering by itself instead of asking B.
A_test1_NoCall(b) == Outcome(b, EmptyBag, "reply", None, None, 1)

A_test1(b) ==
    IF b = None
    THEN Outcome(b, EmptyBag, "panic", None, None, None)
    ELSE Outcome(b, EmptyBag, "call", b, "req2", None)

B_init(ex) ==
    IF ex = "deadlock_timer"
    THEN Outcome(None, Arm("B", "tick2", TickDelay), "done", None, None, None)
    ELSE Outcome(None, EmptyBag, "done", None, None, None)

B_connect2(a, arg) == Outcome(arg, EmptyBag, "done", None, None, None)

\* req2 never calling back into A.
B_req2_NoCall(a) == Outcome(a, EmptyBag, "reply", None, None, 2)

B_req2(a) ==
    IF a # None
    THEN Outcome(a, EmptyBag, "call", a, "req1", None)
    ELSE Outcome(a, EmptyBag, "reply", None, None, 2)

B_tick2(a) == Outcome(a, Arm("B", "tick2", TickDelay), "done", None, None, None)

Timer_init(interval) ==
    Outcome(interval, Arm("Timer", "tick", interval), "done", None, None, None)

\* tick forgetting to re-arm the timer.
Timer_tick_NoRearm(interval) == Outcome(interval, EmptyBag, "done", None, None, None)

Timer_tick(interval) ==
    Outcome(interval, Arm("Timer", "tick", interval), "done", None, None, None)

InitOf(ex, p, arg) ==
    CASE p = "A" -> A_init(ex)
      [] p = "B" -> B_init(ex)
      [] OTHER -> Timer_init(arg)

Handle(p, f, e) ==
    CASE p = "A" /\ e.name = "connect1" -> A_connect1(f, e.arg)
      [] p = "A" /\ e.name = "req1" -> A_req1(f)
      [] p = "A" /\ e.name = "tick1" -> A_tick1(f)
      [] p = "A" /\ e.name = "test1" -> A_test1(f)
      [] p = "B" /\ e.name = "connect2" -> B_connect2(f, e.arg)
      [] p = "B" /\ e.name = "req2" -> B_req2(f)
      [] p = "B" /\ e.name = "tick2" -> B_tick2(f)
      [] OTHER -> Timer_tick(f)

(***************************************************************************)
(* Runtime: mailboxes, links and termination.                              *)
(***************************************************************************)
\* Enqueueing at the front of the mailbox.
Deliver_Front(mb, al, to, e) ==
    IF al[to] = "running" THEN [mb EXCEPT ![to] = << e >> \o @] ELSE mb

Deliver(mb, al, to, e) ==
    IF al[to] = "running" THEN [mb EXCEPT ![to] = Append(@, e)] ELSE mb

RemoveAt(s, i) == SubSeq(s, 1, i - 1) \o SubSeq(s, i + 1, Len(s))

Peers(p) == {q \in DOMAIN alive : {p, q} \in links /\ q # p}

\* Taking the first reply whatever its tag.
ReplyIndex_AnyTag(m, t) ==
    LET I == {i \in DOMAIN m : m[i].kind = "reply"}
    IN  IF I = {} THEN 0 ELSE Min(I)

\* Index of the first reply to tag t in mailbox m, or 0.
ReplyIndex(m, t) ==
    LET I == {i \in DOMAIN m : m[i].kind = "reply" /\ m[i].tag = t}
    IN  IF I = {} THEN 0 ELSE Min(I)

\* Abnormal termination of p: its links break and each peer is signalled.
DeadAlive(p) == [alive EXCEPT ![p] = "dead"]
DeadLinks(p) == {l \in links : p \notin l}
DeadSignals(p) == signals \cup {<< p, q >> : q \in Peers(p)}
DeadCur(p) == IF p \in DOMAIN cur THEN [cur EXCEPT ![p] = << >>] ELSE cur

\* The link deaths owed when p terminates abnormally: one to every running
\* process that p was spawned linked to, or that was spawned linked to p.
Owed(p) ==
    {<< p, q >> : q \in {r \in DOMAIN alive :
        /\ alive[r] = "running"
        /\ \E c \in ghost.creator :
              c.link /\ ((c.child = p /\ c.parent = r) \/ (c.child = r /\ c.parent = p))}}

\* this_module and module hold a module id, 0 for None; call and last hold at
\* most one record.
NoEnv == [this_module |-> 0, module |-> 0, call |-> << >>, last |-> << >>]
\* No configuration is being built, no environment made, no process spawned.
NoQuota == [config |-> << >>, env |-> << >>, proc |-> << >>]

NoGhost == [creator |-> {}, owed |-> {}, notes |-> EmptyBag]

Init ==
    /\ example \in Examples
    /\ mpc = 1
    /\ mwait = 0
    /\ mtimer = << >>
    /\ mres = << >>
    /\ alive = [p \in Procs |-> IF p = "main" THEN "running" ELSE "unborn"]
    /\ field = [p \in Actors |-> None]
    /\ mbox = [p \in Procs |-> << >>]
    /\ cur = [p \in Actors |-> << >>]
    /\ delayed = EmptyBag
    /\ links = {}
    /\ signals = {}
    /\ nextTag = 1
    /\ sent = [c \in Procs \X Procs |-> 0]
    /\ handled = [c \in Procs \X Procs |-> 0]
    /\ log = [tags |-> << >>, replies |-> << >>, started |-> << >>, stallTick |-> FALSE]
    /\ env = NoEnv
    /\ trapExit = {}
    /\ ghost = NoGhost
    /\ reg = {}
    /\ last = << >>
    /\ quota = NoQuota
    /\ params = << >>
    /\ tcp = << >>

MainAt(op) ==
    /\ alive["main"] = "running"
    /\ mwait = 0
    /\ mpc <= Len(Program(example))
    /\ Program(example)[mpc].op = op

\* T::link().start(arg): init runs, the process exists and is linked.
MainSpawn ==
    /\ MainAt("spawn_link")
    /\ LET in == Program(example)[mpc]
           o == InitOf(example, in.to, in.arg)
       IN  /\ alive' = [alive EXCEPT ![in.to] = "running"]
           /\ field' = [field EXCEPT ![in.to] = o.field]
           /\ delayed' = delayed (+) o.after
           /\ links' = links \cup {{"main", in.to}}
           /\ ghost' = [ghost EXCEPT !.creator =
                            @ \cup {[child |-> in.to, parent |-> "main", link |-> TRUE]}]
    /\ mpc' = mpc + 1
    /\ UNCHANGED << envVars, example, mwait, mtimer, mres, mbox, cur, signals, nextTag,
                    sent, handled, log >>

\* a.connect1(b), a.tick1(): a direct send.
MainSend ==
    /\ MainAt("send")
    /\ LET in == Program(example)[mpc]
           n == sent[<< "main", in.to >>] + 1
       IN  /\ mbox' = Deliver(mbox, alive, in.to,
                              Envelope("msg", in.name, "main", n, 0, in.arg))
           /\ sent' = [sent EXCEPT ![<< "main", in.to >>] = n]
    /\ mpc' = mpc + 1
    /\ UNCHANGED << envVars, ghost, example, mwait, mtimer, mres, alive, field, cur, delayed, links,
                    signals, nextTag, handled, log >>

\* a.test1() / a.with_timeout(d).test1(): send the request, then block.
MainCall ==
    /\ MainAt("request")
    /\ LET in == Program(example)[mpc]
           n == sent[<< "main", in.to >>] + 1
       IN  /\ mbox' = Deliver(mbox, alive, in.to,
                              Envelope("req", in.name, "main", n, nextTag, in.arg))
           /\ sent' = [sent EXCEPT ![<< "main", in.to >>] = n]
           /\ mtimer' = in.timeout
    /\ mwait' = nextTag
    /\ nextTag' = nextTag + 1
    /\ log' = [log EXCEPT !.tags = Append(@, nextTag)]
    /\ UNCHANGED << envVars, ghost, example, mpc, mres, alive, field, cur, delayed, links, signals,
                    handled >>

\* The reply carrying the awaited tag is taken out of main's mailbox.
MainReply ==
    /\ alive["main"] = "running"
    /\ mwait # 0
    /\ ReplyIndex(mbox["main"], mwait) # 0
    /\ LET i == ReplyIndex(mbox["main"], mwait)
       IN  /\ mres' = Append(mres, Ok(mbox["main"][i].arg))
           /\ mbox' = [mbox EXCEPT !["main"] = RemoveAt(@, i)]
    /\ mwait' = 0
    /\ mtimer' = << >>
    /\ mpc' = mpc + 1
    /\ UNCHANGED << envVars, ghost, example, alive, field, cur, delayed, links, signals, nextTag,
                    sent, handled, log >>

\* The timeout of the pending request has elapsed: the call returns Timeout.
MainTimeout ==
    /\ alive["main"] = "running"
    /\ mwait # 0
    /\ mtimer = << 0 >>
    /\ mres' = Append(mres, Timeout)
    /\ mwait' = 0
    /\ mtimer' = << >>
    /\ mpc' = mpc + 1
    /\ UNCHANGED << envVars, ghost, example, alive, field, mbox, cur, delayed, links, signals,
                    nextTag, sent, handled, log >>
\* A loop that dequeues while a handler is still in progress.
Idle_Always(p) == TRUE

\* The mailbox loop of p takes the next item only between handlers.
Idle(p) == cur[p] = << >>

\* What the mailbox loop of actor p does with the item e it has dequeued.
\* A message handler and a request handler that replies at once run to
\* completion here; a handler that makes a blocking request leaves a frame
\* behind and is finished by Resume.
Dispatch(p) ==
    /\ p \in Actors
    /\ alive[p] = "running"
    /\ Idle(p)
    /\ mbox[p] # << >>
    /\ LET e == Head(mbox[p])
           rest == [mbox EXCEPT ![p] = Tail(@)]
           \* a reply nobody waits for any more is dropped, not handled
           o == IF e.kind = "reply"
                THEN Outcome(field[p], EmptyBag, "done", None, None, None)
                ELSE Handle(p, field[p], e)
           n == IF o.end = "call" THEN sent[<< p, o.to >>] + 1 ELSE 0
       IN  /\ field' = [field EXCEPT ![p] = o.field]
           /\ delayed' = delayed (+) o.after
           /\ handled' = IF e.seq > 0 THEN [handled EXCEPT ![<< e.from, p >>] = e.seq]
                         ELSE handled
           /\ mbox' = CASE o.end = "reply" ->
                             Deliver(rest, alive, e.from,
                                     Envelope("reply", "reply", p, 0, e.tag, o.val))
                        [] o.end = "call" ->
                             Deliver(rest, alive, o.to,
                                     Envelope("req", o.name, p, n, nextTag, None))
                        [] o.end = "panic" -> [rest EXCEPT ![p] = << >>]
                        [] OTHER -> rest
           /\ sent' = IF o.end = "call" THEN [sent EXCEPT ![<< p, o.to >>] = n] ELSE sent
           /\ nextTag' = IF o.end = "call" THEN nextTag + 1 ELSE nextTag
           /\ cur' = IF o.end = "call"
                     THEN [cur EXCEPT ![p] = Append(@, [env |-> e, wait |-> nextTag])]
                     ELSE cur
           /\ alive' = IF o.end = "panic" THEN DeadAlive(p) ELSE alive
           /\ links' = IF o.end = "panic" THEN DeadLinks(p) ELSE links
           /\ signals' = IF o.end = "panic" THEN DeadSignals(p) ELSE signals
           /\ ghost' = IF o.end = "panic"
                       THEN [ghost EXCEPT !.owed = @ \cup Owed(p)]
                       ELSE ghost
           /\ log' = [log EXCEPT
                        !.stallTick = @ \/ (p = "Timer" /\ cur["A"] # << >> /\ cur["B"] # << >>),
                        !.started = IF e.kind = "req" \/ (e.kind # "msg" /\ o.end # "done")
                                    THEN Append(@, [by |-> p, kind |-> e.kind, name |-> e.name,
                                                    tag |-> e.tag])
                                    ELSE @,
                        !.replies = IF o.end = "reply"
                                    THEN Append(@, [by |-> p, tag |-> e.tag, val |-> o.val])
                                    ELSE @]
    /\ UNCHANGED << envVars, example, mpc, mwait, mtimer, mres >>

\* The reply actor p is blocked on has arrived: the request it made returns,
\* and its value is the reply of the handler in progress.
Resume(p) ==
    /\ p \in Actors
    /\ alive[p] = "running"
    /\ cur[p] # << >>
    /\ ReplyIndex(mbox[p], cur[p][Len(cur[p])].wait) # 0
    /\ LET f == cur[p][Len(cur[p])]
           i == ReplyIndex(mbox[p], f.wait)
           v == mbox[p][i].arg
           rest == [mbox EXCEPT ![p] = RemoveAt(@, i)]
       IN  /\ mbox' = Deliver(rest, alive, f.env.from,
                              Envelope("reply", "reply", p, 0, f.env.tag, v))
           /\ log' = [log EXCEPT !.replies = Append(@, [by |-> p, tag |-> f.env.tag, val |-> v])]
    /\ cur' = [cur EXCEPT ![p] = SubSeq(@, 1, Len(@) - 1)]
    /\ UNCHANGED << envVars, ghost, example, mpc, mwait, mtimer, mres, alive, field, delayed, links,
                    signals, nextTag, sent, handled >>

\* The delay of a send_after has elapsed: the message is enqueued.
ReleaseTo(p) ==
    /\ \E d \in BagToSet(delayed) :
          /\ d.to = p
          /\ d.rem = 0
          /\ mbox' = Deliver(mbox, alive, d.to, Envelope("msg", d.name, d.to, 0, 0, None))
          /\ delayed' = delayed (-) SetToBag({d})
    /\ UNCHANGED << envVars, ghost, example, mpc, mwait, mtimer, mres, alive, field, cur, links,
                    signals, nextTag, sent, handled, log >>

Release == \E p \in Actors : ReleaseTo(p)

\* Time passes until the delay of one pending send_after has elapsed.  How
\* far the other deadlines are is not tracked: any pending one may be next.
Elapse(p) ==
    /\ \E d \in BagToSet(delayed) :
          /\ d.to = p
          /\ d.rem > 0
          /\ delayed' = (delayed (-) SetToBag({d})) (+) SetToBag({[d EXCEPT !.rem = 0]})
    /\ UNCHANGED << envVars, ghost, example, mpc, mwait, mtimer, mres, alive, field, mbox, cur, links,
                    signals, nextTag, sent, handled, log >>

\* Time passes until the timeout of main's pending request has elapsed.
TimeoutElapse ==
    /\ mtimer # << >>
    /\ mtimer[1] > 0
    /\ mtimer' = << 0 >>
    /\ UNCHANGED << envVars, ghost, example, mpc, mwait, mres, alive, field, mbox, cur, delayed, links,
                    signals, nextTag, sent, handled, log >>

\* A link-death signal reaches the peer q.  A running peer that traps exits
\* gets it as a message; one that does not terminates abnormally itself.
LinkDeath ==
    \E s \in signals :
        LET q == s[2]
            dies == alive[q] = "running" /\ q \notin trapExit
        IN  /\ alive' = IF dies THEN DeadAlive(q) ELSE alive
            /\ links' = IF dies THEN DeadLinks(q) ELSE links
            /\ signals' = (IF dies THEN DeadSignals(q) ELSE signals) \ {s}
            /\ cur' = IF dies THEN DeadCur(q) ELSE cur
            /\ mbox' = CASE dies -> [mbox EXCEPT ![q] = << >>]
                         [] alive[q] = "running" ->
                              [mbox EXCEPT ![q] =
                                  Append(@, Envelope("exit", "link_died", s[1], 0, 0, None))]
                         [] OTHER -> mbox
            /\ ghost' = [ghost EXCEPT
                            !.notes = @ (+) SetToBag({s}),
                            !.owed = IF dies THEN @ \cup Owed(q) ELSE @]
            /\ UNCHANGED << envVars, example, mpc, mwait, mtimer, mres, field, delayed,
                            nextTag, sent, handled, log >>

Next ==
    \/ MainSpawn
    \/ MainSend
    \/ MainCall
    \/ MainReply
    \/ MainTimeout
    \/ \E p \in Actors : Dispatch(p)
    \/ \E p \in Actors : Resume(p)
    \/ Release
    \/ \E p \in Actors : Elapse(p)
    \/ TimeoutElapse
    \/ LinkDeath

Spec == Init /\ [][Next]_vars

\* Every process is scheduled, every timer runs, every signal is delivered.
Fairness ==
    /\ WF_vars(MainSpawn) /\ WF_vars(MainSend) /\ WF_vars(MainCall)
    /\ WF_vars(MainReply) /\ WF_vars(MainTimeout)
    /\ \A p \in Actors : WF_vars(Dispatch(p)) /\ WF_vars(Resume(p)) /\ WF_vars(Elapse(p))
    /\ \A p \in Actors : WF_vars(ReleaseTo(p))
    /\ WF_vars(TimeoutElapse) /\ WF_vars(LinkDeath)

FairSpec == Spec /\ Fairness
(***************************************************************************)
(* Spawn parameters.  A parameter is a kind and a value; an I32 or I64     *)
(* value is a signed integer, a V128 value an unsigned one.  A byte is a   *)
(* number in 0 .. 255.                                                     *)
(***************************************************************************)
MaxParams == 2

Param(kind, value) == [kind |-> kind, value |-> value]
I32(value) == Param("I32", value)
I64(value) == Param("I64", value)
V128(value) == Param("V128", value)

Params == {I32(v) : v \in {-2147483647, -2, 0, 258, 2147483647}}
              \cup {I64(v) : v \in {-1, 0, 65536}}
              \cup {V128(v) : v \in {0, 1, 16909060}}

RECURSIVE ParamLists(_)
ParamLists(n) ==
    IF n = 0 THEN {<< >>}
    ELSE ParamLists(n - 1)
             \cup {Append(l, x) : l \in {m \in ParamLists(n - 1) : Len(m) = n - 1},
                                  x \in Params}

\* Byte k, counted from the lowest, of a value in two's complement: what the
\* cast to u128 followed by to_le_bytes gives for k below 16.
RECURSIVE Byte(_, _)
Byte(v, k) == IF k = 0 THEN v % 256 ELSE Byte(v \div 256, k - 1)

to_le_bytes(v) == [k \in 1 .. 16 |-> Byte(v, k - 1)]

\* The same with an I32 widened without its sign.
RECURSIVE params_to_vec_ZeroExtend(_)
params_to_vec_ZeroExtend(ps) ==
    IF ps = << >> THEN << >>
    ELSE LET param == Head(ps)
             one == CASE param.kind = "I32" ->
                            << 127 >> \o [k \in 1 .. 16 |->
                                             IF k <= 4 THEN Byte(param.value, k - 1) ELSE 0]
                       [] param.kind = "I64" -> << 126 >> \o to_le_bytes(param.value)
                       [] OTHER -> << 123 >> \o to_le_bytes(param.value)
         IN  one \o params_to_vec_ZeroExtend(Tail(ps))

RECURSIVE params_to_vec(_)
params_to_vec(ps) ==
    IF ps = << >> THEN << >>
    ELSE LET param == Head(ps)
             one == CASE param.kind = "I32" -> << 127 >> \o to_le_bytes(param.value)
                       [] param.kind = "I64" -> << 126 >> \o to_le_bytes(param.value)
                       [] OTHER -> << 123 >> \o to_le_bytes(param.value)
         IN  one \o params_to_vec(Tail(ps))

InitParams ==
    /\ example = "params"
    /\ mpc = 1
    /\ mwait = 0
    /\ mtimer = << >>
    /\ mres = << >>
    /\ alive = << >>
    /\ field = << >>
    /\ mbox = << >>
    /\ cur = << >>
    /\ delayed = EmptyBag
    /\ links = {}
    /\ signals = {}
    /\ nextTag = 1
    /\ sent = << >>
    /\ handled = << >>
    /\ log = [tags |-> << >>, replies |-> << >>, started |-> << >>, stallTick |-> FALSE]
    /\ env = NoEnv
    /\ trapExit = {}
    /\ ghost = NoGhost
    /\ reg = {}
    /\ last = << >>
    /\ quota = NoQuota
    /\ params \in {<< [in |-> l, out |-> << >>, done |-> FALSE] >> : l \in ParamLists(MaxParams)}
    /\ tcp = << >>

\* params_to_vec(params)
Serialize ==
    /\ params # << >>
    /\ ~params[1].done
    /\ params' = << [params[1] EXCEPT !.out = params_to_vec(params[1].in), !.done = TRUE] >>
    /\ UNCHANGED << example, mpc, mwait, mtimer, mres, alive, field, mbox, cur, delayed, links,
                    signals, nextTag, sent, handled, log, env, trapExit, ghost, regVars,
                    quota, tcp >>

NextParams == Serialize

SpecParams == InitParams /\ [][NextParams]_vars

(***************************************************************************)
(* Environment and Module: spawning into an environment.  The root process *)
(* 0 holds an Environment and spawns the children 1..MaxChildren; every    *)
(* process may trap at any time.                                           *)
(***************************************************************************)
MaxChildren == 2

Root == 0
Pids == 0 .. MaxChildren

\* spawn adding the module whatever this_module holds.
Environment_spawn_AlwaysAdd(this_module) == "add_this_module"

\* Environment::spawn: what the match on this_module leads to.
Environment_spawn(this_module) ==
    IF this_module # 0 THEN "ThisModule::spawn" ELSE "add_this_module"

\* spawn_link going through the unlinked spawn of the module.
Environment_spawn_link_AsSpawn(this_module) ==
    IF this_module # 0 THEN "ThisModule::spawn" ELSE "add_this_module"

\* Environment::spawn_link: what the match on this_module leads to.
Environment_spawn_link(this_module) ==
    IF this_module # 0 THEN "ThisModule::spawn_link" ELSE "add_this_module"

\* spawn asking the host for a link.
ThisModule_spawn_Linked == [link |-> 1]

\* The link argument of the host spawn call each spawn method makes.
ThisModule_spawn == [link |-> 0]
ThisModule_spawn_link == [link |-> 1]
Module_spawn == [link |-> 0]

\* spawn_link passing the link argument of spawn.
Module_spawn_link_NoLink == [link |-> 0]

Module_spawn_link == [link |-> 1]

NextChild == Min({c \in Pids : alive[c] = "unborn"})

\* host spawn: on success the child exists and, with a link argument, is
\* linked to the caller, in one step.  intent says whether the caller asked
\* for a linked spawn.
HostSpawn(args, intent, ok) ==
    LET c == NextChild
    IN  /\ alive' = IF ok THEN [alive EXCEPT ![c] = "running"] ELSE alive
        /\ links' = IF ok /\ args.link # 0 THEN links \cup {{Root, c}} ELSE links
        /\ ghost' = IF ok
                    THEN [ghost EXCEPT !.creator =
                             @ \cup {[child |-> c, parent |-> Root, link |-> intent]}]
                    ELSE ghost

InitEnv ==
    /\ example = "env"
    /\ mpc = 1
    /\ mwait = 0
    /\ mtimer = << >>
    /\ mres = << >>
    /\ alive = [p \in Pids |-> IF p = Root THEN "running" ELSE "unborn"]
    /\ field = << >>
    /\ mbox = [p \in Pids |-> << >>]
    /\ cur = << >>
    /\ delayed = EmptyBag
    /\ links = {}
    /\ signals = {}
    /\ nextTag = 1
    /\ sent = << >>
    /\ handled = << >>
    /\ log = [tags |-> << >>, replies |-> << >>, started |-> << >>, stallTick |-> FALSE]
    /\ env = NoEnv
    /\ trapExit \in {{}, {Root}}
    /\ ghost = NoGhost
    /\ reg = {}
    /\ last = << >>
    /\ quota = NoQuota
    /\ params = << >>
    /\ tcp = << >>

exVars == << example, mpc, mwait, mtimer, mres, field, cur, delayed, nextTag, sent,
             handled, log, regVars, auxVars >>

CanSpawn == alive[Root] = "running" /\ \E c \in Pids : alive[c] = "unborn"

\* env.spawn(..) or env.spawn_link(..) is called.
EnvBegin ==
    /\ CanSpawn
    /\ env.call = << >>
    /\ \E op \in {"spawn", "spawn_link"} :
          env' = [env EXCEPT !.call = << [op |-> op, adds |-> 0] >>]
    /\ UNCHANGED << exVars, alive, mbox, links, signals, trapExit, ghost >>

EnvTarget ==
    IF env.call[1].op = "spawn"
    THEN Environment_spawn(env.this_module)
    ELSE Environment_spawn_link(env.this_module)

\* this_module is None: add_this_module, then on Ok the same call again.
EnvAddThisModule ==
    /\ CanSpawn
    /\ env.call # << >>
    /\ EnvTarget = "add_this_module"
    /\ \E ok \in BOOLEAN :
          env' = IF ok
                 THEN [env EXCEPT !.this_module = 1, !.call[1].adds = @ + 1]
                 ELSE [env EXCEPT !.call = << >>,
                                  !.last = << [op |-> env.call[1].op, result |-> "err",
                                               adds |-> env.call[1].adds + 1] >>]
    /\ UNCHANGED << exVars, alive, mbox, links, signals, trapExit, ghost >>

\* this_module is Some(module): module.spawn / module.spawn_link.
EnvThisModuleSpawn ==
    /\ CanSpawn
    /\ env.call # << >>
    /\ EnvTarget # "add_this_module"
    /\ \E ok \in BOOLEAN :
          /\ HostSpawn(IF EnvTarget = "ThisModule::spawn" THEN ThisModule_spawn
                       ELSE ThisModule_spawn_link,
                       env.call[1].op = "spawn_link", ok)
          /\ env' = [env EXCEPT !.call = << >>,
                                !.last = << [op |-> env.call[1].op,
                                             result |-> IF ok THEN "ok" ELSE "err",
                                             adds |-> env.call[1].adds] >>]
    /\ UNCHANGED << exVars, mbox, signals, trapExit >>

\* env.add_module(bytes)
EnvAddModule ==
    /\ alive[Root] = "running"
    /\ env.call = << >>
    /\ env.module = 0
    /\ \E ok \in BOOLEAN : env' = [env EXCEPT !.module = IF ok THEN 2 ELSE 0]
    /\ UNCHANGED << exVars, alive, mbox, links, signals, trapExit, ghost >>

\* The functions the added module exports, with the kinds of their parameters.
Exports == {[name |-> "run", sig |-> << "V128" >>],
            [name |-> "add", sig |-> << "I32", "I64" >>]}

SpawnParams == {<< V128(1) >>, << I32(-2) >>, << I32(258), I64(-1) >>}

\* host: the kinds the tag bytes of serialized parameters stand for.
host_param_kinds(bytes) ==
    IF Len(bytes) % 17 # 0 THEN << "bad" >>
    ELSE [i \in 1 .. (Len(bytes) \div 17) |->
             CASE bytes[17 * (i - 1) + 1] = 127 -> "I32"
               [] bytes[17 * (i - 1) + 1] = 126 -> "I64"
               [] bytes[17 * (i - 1) + 1] = 123 -> "V128"
               [] OTHER -> "bad"]

\* host spawn: 0 and a process, or another code and an error, as when the
\* parameters are not of the kinds the function declares.
host_spawn_code(ok, sig, bytes) == IF ok /\ host_param_kinds(bytes) = sig THEN 0 ELSE 1

\* The result handed to the caller whatever the host returned.
SpawnResult_AlwaysOk(code) == "ok"

\* if result == 0 { Ok(process) } else { Err(error) }
SpawnResult(code) == IF code = 0 THEN "ok" ELSE "err"

ModuleOps == {"Module::spawn", "Module::spawn_link"}

\* module.spawn(function, params) / module.spawn_link(function, params)
ModuleSpawn ==
    /\ CanSpawn
    /\ env.call = << >>
    /\ env.module # 0
    /\ \E op \in {"spawn", "spawn_link"}, ok \in BOOLEAN, f \in Exports, ps \in SpawnParams :
          LET code == host_spawn_code(ok, f.sig, params_to_vec(ps))
              turn == IF env.last # << >> /\ env.last[1].op \in ModuleOps
                      THEN 1 - env.last[1].turn ELSE 0
          IN  /\ HostSpawn(IF op = "spawn" THEN Module_spawn ELSE Module_spawn_link,
                           op = "spawn_link", code = 0)
              /\ env' = [env EXCEPT !.last =
                            << [op |-> IF op = "spawn" THEN "Module::spawn"
                                       ELSE "Module::spawn_link",
                                result |-> SpawnResult(code), adds |-> 0,
                                sig |-> f.sig, kinds |-> [i \in DOMAIN ps |-> ps[i].kind],
                                turn |-> turn] >>]
    /\ UNCHANGED << exVars, trapExit, mbox, signals >>

\* A running process traps: it terminates abnormally.
Trap ==
    /\ \E p \in Pids :
          /\ alive[p] = "running"
          /\ alive' = DeadAlive(p)
          /\ links' = DeadLinks(p)
          /\ signals' = DeadSignals(p)
          /\ mbox' = [mbox EXCEPT ![p] = << >>]
          /\ ghost' = [ghost EXCEPT !.owed = @ \cup Owed(p)]
    /\ UNCHANGED << exVars, envVars >>

\* A child returns normally: its links go, nobody is notified.
Exit ==
    /\ \E c \in Pids \ {Root} :
          /\ alive[c] = "running"
          /\ alive' = [alive EXCEPT ![c] = "exited"]
          /\ links' = DeadLinks(c)
          /\ mbox' = [mbox EXCEPT ![c] = << >>]
    /\ UNCHANGED << exVars, envVars, signals, ghost >>

NextEnv ==
    \/ EnvBegin
    \/ EnvAddThisModule
    \/ EnvThisModuleSpawn
    \/ EnvAddModule
    \/ ModuleSpawn
    \/ Trap
    \/ Exit
    \/ LinkDeath

SpecEnv == InitEnv /\ [][NextEnv]_vars

\* A spawn call that was begun goes on: the host answers each call made.
FairnessEnv == WF_vars(EnvAddThisModule) /\ WF_vars(EnvThisModuleSpawn)

FairSpecEnv == SpecEnv /\ FairnessEnv

(***************************************************************************)
(* Configurations and quotas.  The root builds an EnvConfig, makes an       *)
(* Environment from it and spawns children into it; a child that goes over *)
(* its memory limit or compute budget traps.  Memory is counted in pages   *)
(* of 64 KiB; a max_fuel of 0 is no compute limit.                         *)
(***************************************************************************)
EnvConfig_default ==
    [max_memory |-> 65536, max_fuel |-> 0, namespaces |-> {""}, dirs |-> {},
     plugins |-> {}]

\* max_fuel is an Option: << >> for None, << n >> for Some(n).
EnvConfig_new(max_memory, max_fuel) ==
    [max_memory |-> max_memory,
     max_fuel |-> IF max_fuel = << >> THEN 0 ELSE max_fuel[1],
     namespaces |-> {}, dirs |-> {}, plugins |-> {}]

NewConfigs == {EnvConfig_default, EnvConfig_new(18, << 1 >>)}

\* allow_namespace reaching the environments and processes made earlier.
host_allow_namespace_Shared(q, namespace) ==
    [config |-> << [q.config[1] EXCEPT !.namespaces = @ \cup {namespace}] >>,
     env |-> [i \in DOMAIN q.env |-> [q.env[i] EXCEPT !.namespaces = @ \cup {namespace}]],
     proc |-> [c \in DOMAIN q.proc |->
                  [q.proc[c] EXCEPT !.cfg.namespaces = @ \cup {namespace}]]]

host_allow_namespace(q, namespace) ==
    [q EXCEPT !.config[1].namespaces = @ \cup {namespace}]

host_preopen_dir(q, dir) == [q EXCEPT !.config[1].dirs = @ \cup {dir}]

host_add_plugin(q, plugin) == [q EXCEPT !.config[1].plugins = @ \cup {plugin}]

host_drop_config(q) == [q EXCEPT !.config = << >>]

\* The environment gets its own copy of the configuration.
host_create_environment(q) == [q EXCEPT !.env = << q.config[1] >>]

InitQuota ==
    /\ example = "quota"
    /\ mpc = 1
    /\ mwait = 0
    /\ mtimer = << >>
    /\ mres = << >>
    /\ alive = [p \in Pids |-> IF p = Root THEN "running" ELSE "unborn"]
    /\ field = << >>
    /\ mbox = [p \in Pids |-> << >>]
    /\ cur = << >>
    /\ delayed = EmptyBag
    /\ links = {}
    /\ signals = {}
    /\ nextTag = 1
    /\ sent = << >>
    /\ handled = << >>
    /\ log = [tags |-> << >>, replies |-> << >>, started |-> << >>, stallTick |-> FALSE]
    /\ env = NoEnv
    /\ trapExit \in {{}, {Root}}
    /\ ghost = NoGhost
    /\ reg = {}
    /\ last = << >>
    /\ quota = NoQuota
    /\ params = << >>
    /\ tcp = << >>

\* What an action on the configuration leaves alone.
procVars == << example, mpc, mwait, mtimer, mres, alive, field, mbox, cur, delayed, links,
               signals, nextTag, sent, handled, log, env, trapExit, ghost, regVars,
               params, tcp >>

\* EnvConfig::new(..) or EnvConfig::default()
ConfigNew ==
    /\ alive[Root] = "running"
    /\ quota.config = << >>
    /\ \E c \in NewConfigs : quota' = [quota EXCEPT !.config = << c >>]
    /\ UNCHANGED procVars

\* config.allow_networking()
AllowNamespace ==
    /\ alive[Root] = "running"
    /\ quota.config # << >>
    /\ quota' = host_allow_namespace(quota, "lunatic::networking::")
    /\ UNCHANGED procVars

\* config.preopen_dir(dir): Ok, or Err when the caller has no access itself.
PreopenDir ==
    /\ alive[Root] = "running"
    /\ quota.config # << >>
    /\ \E ok \in BOOLEAN : quota' = IF ok THEN host_preopen_dir(quota, "/tmp") ELSE quota
    /\ UNCHANGED procVars

\* config.add_plugin(bytes)
AddPlugin ==
    /\ alive[Root] = "running"
    /\ quota.config # << >>
    /\ \E ok \in BOOLEAN : quota' = IF ok THEN host_add_plugin(quota, "plugin") ELSE quota
    /\ UNCHANGED procVars

\* The configuration goes out of scope.
ConfigDrop ==
    /\ alive[Root] = "running"
    /\ quota.config # << >>
    /\ quota' = host_drop_config(quota)
    /\ UNCHANGED procVars

\* Environment::new(config): the configuration is moved in and dropped at
\* the end of the call, whether the host made an environment or not.
EnvironmentNew ==
    /\ alive[Root] = "running"
    /\ quota.config # << >>
    /\ quota.env = << >>
    /\ \E ok \in BOOLEAN :
          quota' = host_drop_config(IF ok THEN host_create_environment(quota) ELSE quota)
    /\ UNCHANGED procVars

\* env.spawn(..) / env.spawn_link(..) with this_module in place: the child
\* runs under a copy of the environment's configuration.
QuotaSpawn ==
    /\ CanSpawn
    /\ quota.env # << >>
    /\ \E op \in {"spawn", "spawn_link"}, ok \in BOOLEAN :
          LET target == IF op = "spawn" THEN Environment_spawn(1)
                        ELSE Environment_spawn_link(1)
              args == IF target = "ThisModule::spawn" THEN ThisModule_spawn
                      ELSE ThisModule_spawn_link
          IN  /\ HostSpawn(args, op = "spawn_link", ok)
              /\ quota' = IF ok
                          THEN [quota EXCEPT !.proc =
                                   (NextChild :> [cfg |-> quota.env[1], trap |-> ""]) @@ @]
                          ELSE quota
    /\ UNCHANGED << example, mpc, mwait, mtimer, mres, field, mbox, cur, delayed, signals,
                    nextTag, sent, handled, log, env, trapExit, regVars, params, tcp >>

\* A running child goes over its memory limit, or over its compute budget
\* when it has one: it traps.
Exceed ==
    /\ \E c \in DOMAIN quota.proc, kind \in {"memory", "fuel"} :
          /\ alive[c] = "running"
          /\ kind = "fuel" => quota.proc[c].cfg.max_fuel # 0
          /\ alive' = DeadAlive(c)
          /\ links' = DeadLinks(c)
          /\ signals' = DeadSignals(c)
          /\ mbox' = [mbox EXCEPT ![c] = << >>]
          /\ ghost' = [ghost EXCEPT !.owed = @ \cup Owed(c)]
          /\ quota' = [quota EXCEPT !.proc[c].trap = kind]
    /\ UNCHANGED << example, mpc, mwait, mtimer, mres, field, cur, delayed, nextTag, sent,
                    handled, log, env, trapExit, regVars, params, tcp >>

NextQuota ==
    \/ ConfigNew
    \/ AllowNamespace
    \/ PreopenDir
    \/ AddPlugin
    \/ ConfigDrop
    \/ EnvironmentNew
    \/ QuotaSpawn
    \/ Exceed
    \/ LinkDeath

SpecQuota == InitQuota /\ [][NextQuota]_vars

(***************************************************************************)
(* Registry.  A name is a sequence of text fragments, so that the name     *)
(* register_type builds can coincide with one given to register_name.  A   *)
(* version string is the sequence of its dot-separated numbers; a query is *)
(* an exact version ("=") or a caret range ("^") over one to three numbers.*)
(***************************************************************************)
MaxRegs == 3

RegPids == {1, 2}
TypeOf(p) == IF p = 1 THEN "T" ELSE "U"
RegNames == {<< "svc" >>, << "T", "+", "svc" >>}
TypedNames == {<< "svc" >>}
VersionStrings == {<< 1, 0, 0 >>, << 1, 1, 0 >>, << 2, 0, 0 >>, << 1, 1 >>}
Exact(v) == [op |-> "=", parts |-> v]
Caret(v) == [op |-> "^", parts |-> v]
Queries == {Exact(<< 1, 1, 0 >>), Caret(<< 1 >>), Caret(<< 1, 1 >>), Caret(<< 2 >>),
            Caret(<< >>)}

IsSemver(v) == Len(v) = 3

IsQuery(q) ==
    IF q.op = "=" THEN IsSemver(q.parts) ELSE Len(q.parts) \in {1, 2, 3}

VersionLess(a, b) ==
    \/ a[1] < b[1]
    \/ a[1] = b[1] /\ a[2] < b[2]
    \/ a[1] = b[1] /\ a[2] = b[2] /\ a[3] < b[3]

\* The numbers a partial version leaves out count as 0.
Pad(v) == [i \in {1, 2, 3} |-> IF i <= Len(v) THEN v[i] ELSE 0]

\* The first version a caret range excludes: the next one that changes the
\* leftmost non-zero number given (the last number given when all are 0).
CaretEnd(v) ==
    LET nz == {i \in DOMAIN v : v[i] # 0}
        k == IF nz = {} THEN Len(v) ELSE Min(nz)
    IN  [i \in {1, 2, 3} |-> IF i < k THEN v[i] ELSE IF i = k THEN v[i] + 1 ELSE 0]

Matches(q, v) ==
    IF q.op = "=" THEN v = q.parts
    ELSE /\ ~VersionLess(v, Pad(q.parts))
         /\ VersionLess(v, CaretEnd(q.parts))

\* host register: 1 for a version that is no semantic version; 0 with the
\* entry of the key replaced.
host_register(r, name, version, id) ==
    IF ~IsSemver(version) THEN [code |-> 1, reg |-> r]
    ELSE [code |-> 0,
          reg |-> {e \in r : ~(e.name = name /\ e.version = version)}
                     \cup {[name |-> name, version |-> version, process |-> id]}]

\* host unregister: 1 for a bad version, 2 for a key not registered.
host_unregister(r, name, version) ==
    IF ~IsSemver(version) THEN [code |-> 1, reg |-> r]
    ELSE IF \A e \in r : ~(e.name = name /\ e.version = version)
    THEN [code |-> 2, reg |-> r]
    ELSE [code |-> 0, reg |-> {e \in r : ~(e.name = name /\ e.version = version)}]

\* The entry with the highest version, going through the entries one by one.
RECURSIVE Highest(_)
Highest(c) ==
    LET e == CHOOSE x \in c : TRUE
    IN  IF c = {e} THEN e
        ELSE LET b == Highest(c \ {e})
             IN  IF VersionLess(b.version, e.version) THEN e ELSE b

\* host lookup: 1 for a bad query, 2 when nothing matches, else 0 and the id.
host_lookup(r, name, query) ==
    IF ~IsQuery(query) THEN [code |-> 1, id |-> 0]
    ELSE LET c == {e \in r : e.name = name /\ Matches(query, e.version)}
         IN  IF c = {} THEN [code |-> 2, id |-> 0]
             ELSE [code |-> 0, id |-> Highest(c).process]

Result(tag, id) == [tag |-> tag, id |-> id]

\* register_name reporting Ok whatever the host answers.
register_name_AlwaysOk(r, name, version, id) ==
    LET h == host_register(r, name, version, id)
    IN  [reg |-> h.reg, result |-> Result("Ok", 0)]

register_name(r, name, version, id) ==
    LET h == host_register(r, name, version, id)
    IN  [reg |-> h.reg,
         result |-> IF h.code = 0 THEN Result("Ok", 0) ELSE Result("IncorrectSemver", 0)]

\* unregister_name reporting Ok for a key that is not registered.
unregister_name_NotFoundAsOk(r, name, version) ==
    LET h == host_unregister(r, name, version)
    IN  [reg |-> h.reg,
         result |-> CASE h.code = 1 -> Result("IncorrectSemver", 0)
                      [] OTHER -> Result("Ok", 0)]

unregister_name(r, name, version) ==
    LET h == host_unregister(r, name, version)
    IN  [reg |-> h.reg,
         result |-> CASE h.code = 0 -> Result("Ok", 0)
                      [] h.code = 1 -> Result("IncorrectSemver", 0)
                      [] OTHER -> Result("NotFound", 0)]

\* format!("{}+{}", type_name, name)
TypedName(type_name, name) == << type_name, "+" >> \o name

\* register_type registering under the bare name.
register_type_NoPrefix(r, type_name, name, version, id) ==
    LET h == host_register(r, name, version, id)
    IN  [reg |-> h.reg,
         result |-> IF h.code = 0 THEN Result("Ok", 0) ELSE Result("IncorrectSemver", 0)]

register_type(r, type_name, name, version, id) ==
    LET h == host_register(r, TypedName(type_name, name), version, id)
    IN  [reg |-> h.reg,
         result |-> IF h.code = 0 THEN Result("Ok", 0) ELSE Result("IncorrectSemver", 0)]

\* lookup_name handing out the (unset) process id when nothing matches.
lookup_name_NoneAsSome(r, name, query) ==
    LET h == host_lookup(r, name, query)
    IN  CASE h.code = 1 -> Result("IncorrectSemver", 0)
          [] OTHER -> Result("Some", h.id)

lookup_name(r, name, query) ==
    LET h == host_lookup(r, name, query)
    IN  CASE h.code = 0 -> Result("Some", h.id)
          [] h.code = 1 -> Result("IncorrectSemver", 0)
          [] OTHER -> Result("None", 0)

lookup_type(r, type_name, name, query) ==
    LET h == host_lookup(r, TypedName(type_name, name), query)
    IN  CASE h.code = 0 -> Result("Some", h.id)
          [] h.code = 1 -> Result("IncorrectSemver", 0)
          [] OTHER -> Result("None", 0)

\* The process a key is registered for, 0 when it is not registered.
Held(r, name, version) ==
    LET s == {e \in r : e.name = name /\ e.version = version}
    IN  IF s = {} THEN 0 ELSE (CHOOSE e \in s : TRUE).process

\* A call as the caller sees it, with the process its key was registered for
\* when it was made.
Call(op, type_name, name, query, id, result) ==
    << [op |-> op, type |-> type_name, name |-> name, query |-> query, id |-> id,
        result |-> result,
        held |-> Held(reg, IF type_name = "" THEN name ELSE TypedName(type_name, name),
                      query.parts)] >>

InitRegistry ==
    /\ example = "registry"
    /\ mpc = 1
    /\ mwait = 0
    /\ mtimer = << >>
    /\ mres = << >>
    /\ alive = << >>
    /\ field = << >>
    /\ mbox = << >>
    /\ cur = << >>
    /\ delayed = EmptyBag
    /\ links = {}
    /\ signals = {}
    /\ nextTag = 1
    /\ sent = << >>
    /\ handled = << >>
    /\ log = [tags |-> << >>, replies |-> << >>, started |-> << >>, stallTick |-> FALSE]
    /\ env = NoEnv
    /\ trapExit = {}
    /\ ghost = NoGhost
    /\ reg = {}
    /\ last = << >>
    /\ quota = NoQuota
    /\ params = << >>
    /\ tcp = << >>

nonRegVars == << example, mpc, mwait, mtimer, mres, alive, field, mbox, cur, delayed,
                 links, signals, nextTag, sent, handled, log, env, trapExit, ghost,
                 auxVars >>

RegisterName ==
    /\ \E name \in RegNames, v \in VersionStrings, p \in RegPids :
          LET c == register_name(reg, name, v, p)
          IN  /\ Cardinality(c.reg) <= MaxRegs
              /\ reg' = c.reg
              /\ last' = Call("register_name", "", name, Exact(v), p, c.result)
    /\ UNCHANGED nonRegVars

RegisterType ==
    /\ \E name \in TypedNames, v \in VersionStrings, p \in RegPids :
          LET c == register_type(reg, TypeOf(p), name, v, p)
          IN  /\ Cardinality(c.reg) <= MaxRegs
              /\ reg' = c.reg
              /\ last' = Call("register_type", TypeOf(p), name, Exact(v), p, c.result)
    /\ UNCHANGED nonRegVars

UnregisterName ==
    /\ \E name \in RegNames, v \in VersionStrings :
          LET c == unregister_name(reg, name, v)
          IN  /\ reg' = c.reg
              /\ last' = Call("unregister_name", "", name, Exact(v), 0, c.result)
    /\ UNCHANGED nonRegVars

LookupName ==
    /\ \E name \in RegNames, q \in Queries :
          last' = Call("lookup_name", "", name, q, 0, lookup_name(reg, name, q))
    /\ UNCHANGED << nonRegVars, reg >>

LookupType ==
    /\ \E name \in TypedNames, t \in {"T", "U"}, q \in Queries :
          last' = Call("lookup_type", t, name, q, 0, lookup_type(reg, t, name, q))
    /\ UNCHANGED << nonRegVars, reg >>

NextRegistry ==
    \/ RegisterName
    \/ RegisterType
    \/ UnregisterName
    \/ LookupName
    \/ LookupType

SpecRegistry == InitRegistry /\ [][NextRegistry]_vars

(***************************************************************************)
(* TcpListener::bind.  addr yields a list of socket addresses, V4 or V6;   *)
(* the host's tcp_bind returns 0 and writes the listener's id, or returns  *)
(* another code and writes the id of an error.  Host ids are 1, 2, ...     *)
(***************************************************************************)
MaxAddrs == 3

RECURSIVE AddrLists(_)
AddrLists(n) ==
    IF n = 0 THEN {<< >>}
    ELSE AddrLists(n - 1)
             \cup {Append(l, a) : l \in {m \in AddrLists(n - 1) : Len(m) = n - 1},
                                  a \in {"V4", "V6"}}

\* let mut id = 0, before the loop over the addresses.
BindEntry(addrs) ==
    << [addrs |-> addrs, next |-> 1, id |-> 0, attempts |-> << >>, result |-> << >>] >>

InitTcp ==
    /\ example = "tcp"
    /\ mpc = 1
    /\ mwait = 0
    /\ mtimer = << >>
    /\ mres = << >>
    /\ alive = << >>
    /\ field = << >>
    /\ mbox = << >>
    /\ cur = << >>
    /\ delayed = EmptyBag
    /\ links = {}
    /\ signals = {}
    /\ nextTag = 1
    /\ sent = << >>
    /\ handled = << >>
    /\ log = [tags |-> << >>, replies |-> << >>, started |-> << >>, stallTick |-> FALSE]
    /\ env = NoEnv
    /\ trapExit = {}
    /\ ghost = NoGhost
    /\ reg = {}
    /\ last = << >>
    /\ quota = NoQuota
    /\ params = << >>
    /\ tcp \in {BindEntry(l) : l \in AddrLists(MaxAddrs)}

nonTcpVars == << example, mpc, mwait, mtimer, mres, alive, field, mbox, cur, delayed, links,
                 signals, nextTag, sent, handled, log, env, trapExit, ghost, regVars,
                 quota, params >>

\* addr.to_socket_addrs()? fails: bind returns that error at once.
BindResolveFails ==
    /\ tcp[1].result = << >>
    /\ tcp[1].attempts = << >>
    /\ tcp' = << [tcp[1] EXCEPT !.result = << [ok |-> FALSE, kind |-> "resolve", id |-> 0] >>] >>
    /\ UNCHANGED nonTcpVars

\* One turn of the loop: tcp_bind for the next address; on 0 the listener
\* is returned.
BindAttempt ==
    /\ tcp[1].result = << >>
    /\ tcp[1].next <= Len(tcp[1].addrs)
    /\ \E code \in {0, 1} :
          LET written == Len(tcp[1].attempts) + 1
              a == [addr |-> tcp[1].addrs[tcp[1].next], version |->
                        IF tcp[1].addrs[tcp[1].next] = "V4" THEN 4 ELSE 6,
                    code |-> code, id |-> written]
          IN  tcp' = << [tcp[1] EXCEPT
                           !.id = written,
                           !.attempts = Append(@, a),
                           !.next = @ + 1,
                           !.result = IF code = 0
                                      THEN << [ok |-> TRUE, kind |-> "listener", id |-> written] >>
                                      ELSE @] >>
    /\ UNCHANGED nonTcpVars

\* The loop is over without a listener: Err(LunaticError::from(id)).
BindGivesUp ==
    /\ tcp[1].result = << >>
    /\ tcp[1].next > Len(tcp[1].addrs)
    /\ tcp' = << [tcp[1] EXCEPT !.result = << [ok |-> FALSE, kind |-> "lunatic",
                                                id |-> tcp[1].id] >>] >>
    /\ UNCHANGED nonTcpVars

NextTcp ==
    \/ BindResolveFails
    \/ BindAttempt
    \/ BindGivesUp

SpecTcp == InitTcp /\ [][NextTcp]_vars

(***************************************************************************)
(* Properties.                                                             *)
(***************************************************************************)
IsPrefix(s, t) == Len(s) <= Len(t) /\ SubSeq(t, 1, Len(s)) = s

DeadlockExample == example \in {"deadlock", "deadlock_timer"}

RequestsOf(ex) == SelectSeq(Program(ex), LAMBDA in : in.op = "request")

\* A is inside test1 awaiting B's reply to req2, and B is inside that req2
\* awaiting A's reply to req1.
Deadlocked ==
    /\ cur["A"] # << >> /\ cur["B"] # << >>
    /\ cur["A"][1].env.name = "test1"
    /\ cur["B"][1].env.name = "req2"
    /\ cur["B"][1].env.tag = cur["A"][1].wait

\* C1: in the deadlock scenario every test1 call made with a timeout d returns
\* Timeout, it returns only once d has elapsed, and a caller blocked in such
\* a call always gets out of it.
C1_TimedCallReturnsTimeout ==
    /\ [](DeadlockExample =>
            \A i \in DOMAIN mres :
                RequestsOf(example)[i].timeout # << >> => mres[i] = Timeout)
    /\ [][(DeadlockExample /\ Len(mres') > Len(mres)) => mtimer = << 0 >>]_vars
    /\ ((DeadlockExample /\ mwait # 0 /\ mtimer # << >>) ~> (mwait = 0))

C1_Witness ==
    /\ example = "deadlock_timer"
    /\ Deadlocked
    /\ mres = << Timeout, Timeout >>

\* C2: in deadlock_timer the Timer process handles a tick infinitely often,
\* also once A and B are deadlocked.
C2_TimerKeepsTicking ==
    (example = "deadlock_timer") => []<><< Dispatch("Timer") >>_vars

C2_Witness == example = "deadlock_timer" /\ Deadlocked /\ log.stallTick

\* C3: once A and B are deadlocked neither handler completes, neither process
\* dispatches another mailbox item and no reply is produced; a request made
\* without a timeout in the deadlock examples never returns.
C3_DeadlockIsForever ==
    /\ [][Deadlocked =>
            /\ Deadlocked'
            /\ cur' = cur
            /\ \A p \in {"A", "B"} : IsPrefix(mbox[p], mbox'[p])
            /\ log'.replies = log.replies /\ log'.started = log.started]_vars
    /\ [](DeadlockExample =>
            \A i \in DOMAIN mres : RequestsOf(example)[i].timeout # << >>)

C3_Witness ==
    /\ example = "deadlock" /\ Deadlocked
    /\ mwait # 0 /\ mtimer = << >>
    /\ Len(mbox["A"]) > 0

\* C4: a reply that arrives after its request timed out is never the result
\* of another request: every reply value main gets was sent to the tag of
\* that very request; and no reply envelope is ever given to a handler.
C4_LateReplyDiscarded ==
    /\ \A i \in DOMAIN mres :
          mres[i].ok =>
             \E j \in DOMAIN log.replies :
                 log.replies[j].tag = log.tags[i] /\ log.replies[j].val = mres[i].val
    /\ \A j \in DOMAIN log.started : log.started[j].kind = "req"

\* The first request timed out, its reply came late and is still in the
\* mailbox, and the second request has returned its own reply.
C4_Witness ==
    /\ Len(mres) >= 2
    /\ mres[1] = Timeout /\ mres[2].ok
    /\ \E i \in DOMAIN mbox["main"] :
          mbox["main"][i].kind = "reply" /\ mbox["main"][i].tag = log.tags[1]

\* C5: the receiver dispatches the direct sends of one sender in send order,
\* skipping none, whatever other senders' items lie between them.
C5_MailboxFifo ==
    /\ [][\A c \in Procs \X Procs :
            handled'[c] # handled[c] => handled'[c] = handled[c] + 1]_vars
    /\ [](\A r \in Procs : \A i, j \in DOMAIN mbox[r] :
            (i < j /\ mbox[r][i].from = mbox[r][j].from
                   /\ mbox[r][i].seq > 0 /\ mbox[r][j].seq > 0)
               => mbox[r][i].seq < mbox[r][j].seq)

\* A has dispatched connect1, tick1 and test1 of main, in that order, with
\* its own delayed ticks in between.
C5_Witness ==
    /\ example = "deadlock_timer"
    /\ handled[<< "main", "A" >>] = 3
    /\ cur["A"] # << >>
    /\ \E i \in DOMAIN mbox["A"] : mbox["A"][i].from = "A"

\* C6: no process has two handlers in progress, and a process blocked in a
\* request handler takes nothing out of its mailbox but the awaited reply.
C6_OneHandlerAtATime ==
    /\ [](\A p \in Actors : Len(cur[p]) <= 1)
    /\ [][\A p \in Actors :
            (cur[p] # << >> /\ alive'[p] = "running") =>
               \/ cur'[p] = cur[p] /\ IsPrefix(mbox[p], mbox'[p])
               \/ /\ cur'[p] = << >>
                  /\ \E i \in DOMAIN mbox[p] :
                        /\ mbox[p][i].kind = "reply"
                        /\ mbox[p][i].tag = cur[p][1].wait
                        /\ mbox'[p] = RemoveAt(mbox[p], i)]_vars

\* A is blocked inside test1 with tick1, test1 and req1 waiting in its mailbox.
C6_Witness ==
    /\ example = "deadlock_timer" /\ Deadlocked
    /\ {"tick1", "test1", "req1"} \subseteq {mbox["A"][i].name : i \in DOMAIN mbox["A"]}
Delivered(s) == IF BagIn(s, ghost.notes) THEN CopiesIn(s, ghost.notes) ELSE 0

ExitsFrom(p, q) == Cardinality({i \in DOMAIN mbox[q] :
                                   mbox[q][i].kind = "exit" /\ mbox[q][i].from = p})

\* C7: when a process terminates abnormally, each running process linked to
\* it by a linked spawn gets the link death exactly once: it is in flight or
\* has been delivered once, never both, never twice; a trapping peer then
\* holds exactly one exit message of it, any other peer is no longer running.
C7_LinkDeathExactlyOnce ==
    /\ \A s \in ghost.owed : (s \in signals) # (Delivered(s) = 1)
    /\ \A s \in signals \cup BagToSet(ghost.notes) : s \in ghost.owed /\ Delivered(s) <= 1
    /\ \A s \in BagToSet(ghost.notes) :
          IF s[2] \in trapExit
          THEN alive[s[2]] = "running" => ExitsFrom(s[1], s[2]) = 1
          ELSE alive[s[2]] # "running"

\* A child spawned with spawn_link has trapped and the root has got the link
\* death, as a message in one run and by dying in another.
C7_Witness ==
    /\ example = "env"
    /\ \E c \in ghost.creator :
          /\ c.link /\ alive[c.child] = "dead"
          /\ Delivered(<< c.child, Root >>) = 1
          /\ Root \in trapExit

\* C8: a process made by a linked spawn is never running, beside its running
\* spawner, without the link between them; and once it has terminated
\* abnormally the link death between the two is in flight or delivered.
C8_SpawnLinkAtomic ==
    \A c \in ghost.creator :
        c.link =>
          /\ (alive[c.child] = "running" /\ alive[c.parent] = "running")
                => {c.parent, c.child} \in links
          /\ alive[c.child] = "dead"
                => \E s \in signals \cup BagToSet(ghost.notes) :
                      s \in {<< c.child, c.parent >>, << c.parent, c.child >>}

\* Both spawn_link methods have made a child, and one of them has trapped.
C8_Witness ==
    /\ example = "env"
    /\ env.module # 0 /\ env.this_module # 0
    /\ Cardinality({c \in ghost.creator : c.link}) >= 2
    /\ \E c \in ghost.creator : c.link /\ alive[c.child] = "dead" /\ alive[Root] = "running"

StoredNames == RegNames \cup {TypedName(TypeOf(p), n) : p \in RegPids, n \in TypedNames}
SemverStrings == {v \in VersionStrings : IsSemver(v)}
ExactLookup(r, name, v) == lookup_name(r, name, Exact(v))
Satisfying(name, q) == {e \in reg : e.name = name /\ Matches(q, e.version)}

\* C9: a lookup_name with a well-formed query returns the process registered
\* under that name at the highest registered version satisfying the query,
\* and None exactly when no registered version of the name satisfies it.
C9_LookupReturnsHighestSatisfying ==
    \A c \in {last[i] : i \in DOMAIN last} :
        (c.op = "lookup_name" /\ IsQuery(c.query)) =>
            LET s == Satisfying(c.name, c.query)
            IN  /\ c.result.tag \in {"Some", "None"}
                /\ c.result.tag = "None" <=> s = {}
                /\ c.result.tag = "Some" =>
                      \E e \in s :
                          /\ e.process = c.result.id
                          /\ \A f \in s : ~VersionLess(e.version, f.version)

\* The range query ^1 over versions 1.0.0, 1.1.0 and 2.0.0 of one name has
\* returned the process registered at 1.1.0, the others being another process.
C9_Witness ==
    /\ last # << >>
    /\ last[1].op = "lookup_name"
    /\ last[1].query = Caret(<< 1 >>)
    /\ last[1].name = << "svc" >>
    /\ reg = {[name |-> << "svc" >>, version |-> << 1, 0, 0 >>, process |-> 1],
              [name |-> << "svc" >>, version |-> << 1, 1, 0 >>, process |-> 2],
              [name |-> << "svc" >>, version |-> << 2, 0, 0 >>, process |-> 1]}
    /\ last[1].result = Result("Some", 2)

\* The key a registry call acts on: the name handed to the host and the version.
KeyOf(c) ==
    [name |-> IF c.type = "" THEN c.name ELSE TypedName(c.type, c.name),
     version |-> c.query.parts]

\* C10: registering a key again overwrites it: the registry holds at most one
\* process per (name, version); an exact lookup right after a successful
\* register returns the process just registered; and a call leaves the exact
\* lookup of every key other than its own as it was, so the process returned
\* for a key stays the one of the most recent successful register of that key.
C10_ReregisterOverwrites ==
    /\ [](\A e, f \in reg : (e.name = f.name /\ e.version = f.version) => e = f)
    /\ [](\A c \in {last[i] : i \in DOMAIN last} :
             /\ (c.op = "register_name" /\ c.result.tag = "Ok") =>
                   lookup_name(reg, c.name, c.query) = Result("Some", c.id)
             /\ (c.op = "register_type" /\ c.result.tag = "Ok") =>
                   lookup_type(reg, c.type, c.name, c.query) = Result("Some", c.id))
    /\ [][\/ reg' = reg
          \/ \A n \in StoredNames, v \in SemverStrings :
                (last' = << >> \/ KeyOf(last'[1]) # [name |-> n, version |-> v]) =>
                    ExactLookup(reg', n, v) = ExactLookup(reg, n, v)]_vars

\* A key registered for one process has been registered again for another.
C10_Witness ==
    /\ last # << >>
    /\ last[1].op = "register_name"
    /\ last[1].result.tag = "Ok"
    /\ last[1].id = 2
    /\ last[1].held = 1
    /\ lookup_name(reg, last[1].name, last[1].query) = Result("Some", 2)

\* C11: lookup_type for a type never returns a process whose declared type
\* is another one, whatever register_name, register_type and unregister_name
\* calls came before; a name registered only under another type gives None.
C11_LookupTypeNeverWrongType ==
    \A c \in {last[i] : i \in DOMAIN last} :
        c.op = "lookup_type" =>
            /\ c.result.tag = "Some" => TypeOf(c.result.id) = c.type
            /\ (\A e \in reg : e.name # TypedName(c.type, c.name)) =>
                  c.result.tag \in {"None", "IncorrectSemver"}

RegisterOps == {"register_name", "register_type"}

\* C12: a register call whose version string is not an exact semantic version
\* returns IncorrectSemver, and the step of the rejected call leaves the
\* registry as it was: no entry added, none overwritten.
C12_BadVersionRejected ==
    /\ [](\A c \in {last[i] : i \in DOMAIN last} :
             (c.op \in RegisterOps /\ ~IsSemver(c.query.parts)) =>
                 c.result = Result("IncorrectSemver", 0))
    /\ [][(/\ last' # << >>
           /\ last'[1].op \in RegisterOps
           /\ ~IsSemver(last'[1].query.parts)) => reg' = reg]_vars

\* A register call with the version "1.1" has been rejected while the key
\* 1.1.0 of the same name stays registered for another process.
C12_Witness ==
    /\ last # << >>
    /\ last[1].op = "register_name"
    /\ last[1].query.parts = << 1, 1 >>
    /\ last[1].id = 2
    /\ last[1].result.tag = "IncorrectSemver"
    /\ reg = {[name |-> last[1].name, version |-> << 1, 1, 0 >>, process |-> 1]}

\* The third test1 call of main in deadlock_timer.rs, the one without timeout.
ThirdCall ==
    CHOOSE i \in DOMAIN DeadlockTimerMain :
        /\ DeadlockTimerMain[i].op = "request"
        /\ \A j \in DOMAIN DeadlockTimerMain :
              j > i => DeadlockTimerMain[j].op # "request"

\* C13: a send never blocks its sender: whenever main stands at a send, the
\* send can be done, whatever the receiver is doing; and in deadlock_timer,
\* under fair scheduling, main gets through both timed test1 calls and the
\* tick1 sends and ends up blocked in the third, untimed test1 call.
C13_SendNeverBlocks ==
    /\ [](MainAt("send") => ENABLED MainSend)
    /\ (example = "deadlock_timer") =>
          <>(mpc = ThirdCall /\ mwait # 0 /\ mres = << Timeout, Timeout >>)

\* main has sent tick1 to A three times, the last two while A was stuck in
\* test1, and is in its third test1 call.
C13_Witness ==
    /\ example = "deadlock_timer"
    /\ Deadlocked
    /\ mpc = ThirdCall /\ mwait # 0
    /\ mres = << Timeout, Timeout >>
    /\ Len(SelectSeq(mbox["A"], LAMBDA e : e.name = "tick1" /\ e.from = "main")) >= 2

\* The messages in a mailbox that a send_after of the owner put there.
Delayed(mb, p) == Len(SelectSeq(mb, LAMBDA e : e.kind = "msg" /\ e.from = p))

Elapsed(p) == \E d \in BagToSet(delayed) : d.to = p /\ d.rem = 0

\* C14: a send_after message is pending with its whole delay ahead from the
\* call on; it enters the receiver's mailbox only in a step that takes a
\* pending message whose delay has elapsed out of the pending ones, one
\* message per pending one; and once the delay has elapsed it does enter.
C14_SendAfterNotBeforeDelay ==
    /\ [][\A d \in BagToSet(delayed') :
             (d.rem = 0 /\ CopiesIn(d, delayed') > CopiesIn(d, delayed)) =>
                 \E e \in BagToSet(delayed) :
                     /\ e.rem > 0 /\ e.to = d.to /\ e.name = d.name
                     /\ delayed' = (delayed (-) SetToBag({e})) (+) SetToBag({d})]_vars
    /\ [][\A p \in Actors :
             Delayed(mbox'[p], p) > Delayed(mbox[p], p) =>
                 /\ Delayed(mbox'[p], p) = Delayed(mbox[p], p) + 1
                 /\ \E d \in BagToSet(delayed) :
                       /\ d.to = p /\ d.rem = 0
                       /\ mbox'[p][Len(mbox'[p])].name = d.name
                       /\ delayed' = delayed (-) SetToBag({d})]_vars
    /\ \A p \in Actors : Elapsed(p) ~> ~Elapsed(p)

\* A's tick1, armed in init with a delay of 100 ms, is in A's mailbox and no
\* longer pending, while Timer's tick still has its delay ahead.
C14_Witness ==
    /\ example = "deadlock_timer"
    /\ alive["A"] = "running" /\ alive["Timer"] = "running"
    /\ Delayed(mbox["A"], "A") = 1
    /\ \A d \in BagToSet(delayed) : d.to # "A"
    /\ \E d \in BagToSet(delayed) : d.to = "Timer" /\ d.rem = TimerInterval
    /\ cur["A"] = << >>

\* The replies sent so far to the correlation tag t.
RepliesTo(t) == {i \in DOMAIN log.replies : log.replies[i].tag = t}

\* The handler of a dispatched request is still in progress.
InProgress(s) == \E i \in DOMAIN cur[s.by] : cur[s.by][i].env.tag = s.tag

\* C15: a request whose handler was dispatched and has returned has exactly
\* one reply, sent by the process that handled it; no request has two
\* replies; and a request whose handler is still in progress, as test1 and
\* req2 are for ever in the deadlock, has none.
C15_ExactlyOneReply ==
    /\ \A t \in 1 .. nextTag - 1 : Cardinality(RepliesTo(t)) <= 1
    /\ \A i \in DOMAIN log.replies :
          \E j \in DOMAIN log.started :
              /\ log.started[j].tag = log.replies[i].tag
              /\ log.started[j].by = log.replies[i].by
    /\ \A j \in DOMAIN log.started :
          LET s == log.started[j]
          IN  /\ InProgress(s) => RepliesTo(s.tag) = {}
              /\ (alive[s.by] = "running" /\ ~InProgress(s)) =>
                    Cardinality(RepliesTo(s.tag)) = 1

\* B has answered req2 twice, once by itself and once with what A's req1
\* returned, and A has answered req1 to B and to main: four requests, each
\* with its one reply.
C15_Witness ==
    /\ example = "probe"
    /\ Len(log.replies) = 4
    /\ \E i, j \in DOMAIN log.replies :
          /\ log.replies[i].by = "B" /\ log.replies[i].val = 2
          /\ log.replies[j].by = "B" /\ log.replies[j].val = 1
    /\ cur["A"] = << >> /\ cur["B"] = << >>

\* The children that went over a limit of their configuration.
Exceeded == {c \in DOMAIN quota.proc : quota.proc[c].trap # ""}

\* C16: a child that goes over its memory limit or compute budget does so
\* after its spawn returned a handle, and that step changes no result of a
\* spawn; its death reaches other processes only as a link death between a
\* spawner and a child it asked to be linked to, and such a supervisor is
\* notified: the link death is in flight or delivered.
C16_TrapSeenThroughLinks ==
    /\ [](\A c \in Exceeded :
             alive[c] = "dead" /\ \E r \in ghost.creator : r.child = c)
    /\ [](\A s \in signals \cup BagToSet(ghost.notes) :
             \E r \in ghost.creator :
                 r.link /\ {r.child, r.parent} = {s[1], s[2]})
    /\ [](\A c \in Exceeded : \A r \in ghost.creator :
             (r.child = c /\ r.link /\ << c, r.parent >> \in ghost.owed) =>
                 (<< c, r.parent >> \in signals \/ Delivered(<< c, r.parent >>) = 1))
    /\ [][(\E c \in DOMAIN alive : alive[c] = "running" /\ alive'[c] = "dead") =>
             (ghost'.creator = ghost.creator /\ env' = env)]_vars

\* One child made by spawn went over its memory limit and nothing reached
\* the root; another made by spawn_link ran out of fuel and the root, which
\* traps exits, got its link death.
C16_Witness ==
    /\ example = "quota"
    /\ alive[Root] = "running" /\ Root \in trapExit
    /\ signals = {}
    /\ \E c, d \in Exceeded :
          /\ quota.proc[c].trap = "memory"
          /\ [child |-> c, parent |-> Root, link |-> FALSE] \in ghost.creator
          /\ Delivered(<< c, Root >>) = 0
          /\ quota.proc[d].trap = "fuel"
          /\ [child |-> d, parent |-> Root, link |-> TRUE] \in ghost.creator
          /\ Delivered(<< d, Root >>) = 1
          /\ ExitsFrom(d, Root) = 1

\* C17: the configuration a process runs under is the one its environment
\* had when it was spawned, and it stays the same in every later step; so
\* does the configuration of an environment once it is made.
C17_QuotasFixedAtSpawn ==
    /\ [][\A c \in DOMAIN quota.proc :
             c \in DOMAIN quota'.proc /\ quota'.proc[c].cfg = quota.proc[c].cfg]_vars
    /\ [][\A c \in DOMAIN quota'.proc \ DOMAIN quota.proc :
             quota.env # << >> /\ quota'.proc[c].cfg = quota.env[1]]_vars
    /\ [][quota.env # << >> => quota'.env = quota.env]_vars

\* A child runs under a configuration without the networking namespace while
\* a configuration with the same limits, built and changed after the child
\* was spawned, allows that namespace, a directory and a plugin.
C17_Witness ==
    /\ example = "quota"
    /\ quota.config # << >>
    /\ \E c \in DOMAIN quota.proc :
          /\ alive[c] = "running"
          /\ quota.proc[c].cfg = EnvConfig_new(18, << 1 >>)
          /\ quota.config[1].max_memory = quota.proc[c].cfg.max_memory
          /\ quota.config[1].namespaces = {"lunatic::networking::"}
          /\ quota.config[1].dirs # {} /\ quota.config[1].plugins # {}

\* The signed number whose 32-bit two's complement is the bytes b0 .. b3,
\* lowest first.
Signed32(b0, b1, b2, b3) ==
    b0 + 256 * b1 + 65536 * b2 + 16777216 * (IF b3 < 128 THEN b3 ELSE b3 - 256)

TagOf(kind) == CASE kind = "I32" -> 127 [] kind = "I64" -> 126 [] OTHER -> 123

\* C19: the bytes of a parameter list are 17 per parameter, in call order:
\* the tag 0x7F, 0x7E or 0x7B of its kind, then the 16 bytes, lowest first,
\* of its value widened to 128 bits with its sign; and the bytes of a list
\* are those of any front part followed by those of the rest.
C19_SeventeenBytesPerParam ==
    \A c \in {params[i] : i \in DOMAIN params} :
        c.done =>
            /\ Len(c.out) = 17 * Len(c.in)
            /\ \A i \in DOMAIN c.in :
                  LET at == 17 * (i - 1)
                      v == c.in[i].value
                  IN  /\ c.out[at + 1] = TagOf(c.in[i].kind)
                      /\ \A k \in 2 .. 17 : c.out[at + k] \in 0 .. 255
                      /\ Signed32(c.out[at + 2], c.out[at + 3], c.out[at + 4], c.out[at + 5]) = v
                      /\ \A k \in 6 .. 17 : c.out[at + k] = IF v < 0 THEN 255 ELSE 0
            /\ \A i \in 0 .. Len(c.in) :
                  c.out = params_to_vec(SubSeq(c.in, 1, i))
                             \o params_to_vec(SubSeq(c.in, i + 1, Len(c.in)))

\* I32(-2) followed by V128(16909060) has been serialized: 34 bytes, the
\* first parameter's payload being FE FF .. FF.
C19_Witness ==
    /\ params # << >>
    /\ params[1].done
    /\ params[1].in = << I32(-2), V128(16909060) >>
    /\ Len(params[1].out) = 34
    /\ params[1].out[2] = 254 /\ params[1].out[17] = 255
    /\ SubSeq(params[1].out, 18, 22) = << 123, 4, 3, 2, 1 >>

\* The step is a Module spawn call whose parameters are not of the kinds the
\* function declares.
MismatchedSpawn ==
    /\ env' # env
    /\ env'.last # << >>
    /\ env'.last[1].op \in ModuleOps
    /\ env'.last[1].kinds # env'.last[1].sig

\* C18: a Module spawn whose parameters are not of the kinds the entry point
\* declares returns an error to its caller, and its step creates no process:
\* the processes, their links and mailboxes and the record of who was
\* spawned are what they were.
C18_ParamMismatchCreatesNothing ==
    [][MismatchedSpawn =>
          /\ env'.last[1].result = "err"
          /\ alive' = alive
          /\ links' = links
          /\ mbox' = mbox
          /\ signals' = signals
          /\ ghost' = ghost]_vars

\* spawn_link of a function declaring a V128 with an I32 has failed, with
\* one child running from an earlier spawn and the other still unborn.
C18_Witness ==
    /\ example = "env"
    /\ env.last # << >>
    /\ env.last[1].op = "Module::spawn_link"
    /\ env.last[1].sig = << "V128" >> /\ env.last[1].kinds = << "I32" >>
    /\ env.last[1].result = "err"
    /\ Cardinality({c \in Pids : alive[c] = "running"}) = 2
    /\ Cardinality({c \in Pids : alive[c] = "unborn"}) = MaxChildren - 1

\* C20: bind tries the addresses in order; a listener it returns is that of
\* the first attempt that succeeded, which is the last attempt made; an
\* error it returns after the addresses were yielded is the error the last
\* attempt wrote, all addresses having been tried and failed.
C20_BindFirstSuccessOrLastError ==
    \A c \in {tcp[i] : i \in DOMAIN tcp} :
        /\ \A i \in DOMAIN c.attempts : c.attempts[i].addr = c.addrs[i]
        /\ \A i \in DOMAIN c.attempts : i < Len(c.attempts) => c.attempts[i].code # 0
        /\ \A r \in {c.result[i] : i \in DOMAIN c.result} :
              /\ r.ok =>
                    /\ c.attempts # << >>
                    /\ c.attempts[Len(c.attempts)].code = 0
                    /\ r.id = c.attempts[Len(c.attempts)].id
              /\ (~r.ok /\ r.kind = "lunatic") =>
                    /\ Len(c.attempts) = Len(c.addrs)
                    /\ c.attempts # << >>
                    /\ c.attempts[Len(c.attempts)].code # 0
                    /\ r.id = c.attempts[Len(c.attempts)].id

\* The request handler that the step, if it starts one, starts.
Starting == log'.started[Len(log'.started)]

\* C21: in the deadlock examples A.b is set whenever A starts test1, so the
\* unwrap never panics and A stays alive, and B.a is set whenever B starts
\* req2, so req2 makes the nested request to A and no reply is ever 2: both
\* connects of main are enqueued before main's first test1, and A sends req2
\* to B only after that.
C21_ConnectedBeforeTest ==
    /\ [][(DeadlockExample /\ log'.started # log.started) =>
            /\ Starting.name = "test1" =>
                  /\ Starting.by = "A" /\ field["A"] = "B"
                  /\ cur'["A"] # << >> /\ sent'[<< "A", "B" >>] = sent[<< "A", "B" >>] + 1
            /\ Starting.name = "req2" =>
                  /\ Starting.by = "B" /\ field["B"] = "A"
                  /\ cur'["B"] # << >> /\ sent'[<< "B", "A" >>] = sent[<< "B", "A" >>] + 1]_vars
    /\ [](DeadlockExample =>
            /\ alive["A"] # "dead" /\ alive["B"] # "dead"
            /\ \A j \in DOMAIN log.replies : log.replies[j].val # 2
            /\ log.tags # << >> =>
                  sent[<< "main", "A" >>] >= 2 /\ sent[<< "main", "B" >>] = 1
            /\ sent[<< "A", "B" >>] > 0 => log.tags # << >>)

\* In deadlock.rs B has started req2 with B.a set and its nested req1 waits
\* in the mailbox of A, which is inside test1.
C21_Witness ==
    /\ example = "deadlock"
    /\ field = [p \in Actors |-> IF p = "A" THEN "B" ELSE IF p = "B" THEN "A" ELSE None]
    /\ \E j \in DOMAIN log.started : log.started[j].name = "req2" /\ log.started[j].by = "B"
    /\ \E i \in DOMAIN mbox["A"] : mbox["A"][i].name = "req1" /\ mbox["A"][i].from = "B"

\* p has started the request handler name at some point of the run.
Began(p, name) ==
    \E j \in DOMAIN log.started : log.started[j].by = p /\ log.started[j].name = name

\* The step is p's mailbox loop handling an item called name.
Handles(p, name) ==
    /\ mbox[p] # << >>
    /\ Head(mbox[p]).name = name
    /\ Dispatch(p)

\* C22: in deadlock_timer, once A has started test1 it handles no tick1 and
\* starts no test1 any more, so A starts test1 at most once and whatever is
\* or comes into its mailbox stays there; once B has started req2 it handles
\* no tick2 any more.
C22_TickChainsStop ==
    /\ [][(example = "deadlock_timer" /\ Began("A", "test1")) =>
            /\ ~Handles("A", "tick1") /\ ~Handles("A", "test1") /\ ~Dispatch("A")
            /\ IsPrefix(mbox["A"], mbox'["A"])]_vars
    /\ [][(example = "deadlock_timer" /\ Began("B", "req2")) =>
            /\ ~Handles("B", "tick2") /\ ~Dispatch("B")
            /\ IsPrefix(mbox["B"], mbox'["B"])]_vars
    /\ [](example = "deadlock_timer" =>
            Cardinality({j \in DOMAIN log.started : log.started[j].name = "test1"}) <= 1)

\* A is inside test1 and B inside req2; main has made its third test1 call
\* and two tick1 and two test1 wait in A's mailbox, a tick2 in B's.
C22_Witness ==
    /\ example = "deadlock_timer"
    /\ Began("A", "test1") /\ Began("B", "req2")
    /\ Len(log.tags) = 3
    /\ Cardinality({i \in DOMAIN mbox["A"] : mbox["A"][i].name = "tick1"}) >= 2
    /\ Cardinality({i \in DOMAIN mbox["A"] : mbox["A"][i].name = "test1"}) = 2
    /\ \E i \in DOMAIN mbox["B"] : mbox["B"][i].name = "tick2"

\* The ticks of p that are outstanding with delayed sends d and mailboxes mb:
\* those whose delay runs or has elapsed without release, and those queued.
Outstanding(d, mb, p) ==
    BagCardinality([x \in {y \in BagToSet(d) : y.to = p} |-> CopiesIn(x, d)])
        + Cardinality({i \in DOMAIN mb[p] : mb[p][i].from = p /\ mb[p][i].kind = "msg"})
        + Cardinality({i \in DOMAIN mb[p] : mb[p][i].from = "main" /\ mb[p][i].name = "tick1"})

\* The tick1 messages main has sent so far.
MainTicks ==
    Cardinality({i \in 1 .. (mpc - 1) :
                    Program(example)[i].op = "send" /\ Program(example)[i].name = "tick1"})

\* C23: in deadlock_timer the running Timer has exactly one outstanding tick,
\* A has at most one outstanding tick1 for its init and one for each tick1
\* main has sent, and handling a tick leaves the number of outstanding ticks
\* of the handling process as it was.
C23_TickChainsConserved ==
    /\ [](example = "deadlock_timer" =>
            /\ alive["Timer"] = "running" => Outstanding(delayed, mbox, "Timer") = 1
            /\ alive["A"] = "running" => Outstanding(delayed, mbox, "A") <= 1 + MainTicks
            /\ alive["B"] = "running" => Outstanding(delayed, mbox, "B") <= 1)
    /\ [][\A p \in Actors :
            (example = "deadlock_timer" /\ Dispatch(p) /\ Head(mbox[p]).name \in {"tick", "tick1", "tick2"})
               => Outstanding(delayed', mbox', p) = Outstanding(delayed, mbox, p)]_vars

\* The Timer has handled a tick while A and B were deadlocked and its next
\* tick is queued; A has four outstanding tick1: its own and three of main.
C23_Witness ==
    /\ example = "deadlock_timer"
    /\ log.stallTick
    /\ \E i \in DOMAIN mbox["Timer"] : mbox["Timer"][i].name = "tick"
    /\ MainTicks = 3
    /\ Outstanding(delayed, mbox, "A") = 4

EnvOps == {"spawn", "spawn_link"}

\* C24: Environment::spawn and spawn_link call add_this_module only with
\* this_module unset and at most once in a call; on its success this_module
\* is set and the next step of the call is the spawn of the module, which
\* ends the call; on its failure the call ends with the error, no process is
\* made and this_module stays unset; once set, this_module stays and
\* add_this_module is not called again; every call of a running root ends.
C24_AddThisModuleLazilyOnce ==
    /\ [](\A c \in {env.call[i] : i \in DOMAIN env.call} :
             c.adds <= 1 /\ (c.adds = 1 => env.this_module # 0))
    /\ [][EnvAddThisModule =>
            /\ env.this_module = 0 /\ env.call[1].adds = 0
            /\ alive' = alive /\ links' = links /\ ghost' = ghost
            /\ \/ /\ env'.this_module # 0
                  /\ env'.call = << [env.call[1] EXCEPT !.adds = 1] >>
                  /\ env'.last = env.last
               \/ /\ env'.this_module = 0
                  /\ env'.call = << >>
                  /\ env'.last = << [op |-> env.call[1].op, result |-> "err", adds |-> 1] >>]_vars
    /\ [][env.this_module # 0 =>
            env'.this_module = env.this_module /\ ~EnvAddThisModule]_vars
    /\ [][(env.call # << >> /\ env' # env) =>
            \/ env.call[1].adds = 0 /\ env.this_module = 0 /\ EnvAddThisModule
            \/ /\ env.this_module # 0 /\ EnvThisModuleSpawn
               /\ env'.call = << >> /\ env'.last[1].adds = env.call[1].adds]_vars
    /\ (env.call # << >>) ~> (env.call = << >> \/ alive[Root] # "running")

\* A first call ended with the error of add_this_module and made no process;
\* the next call has added the module and is about to spawn from it.
C24_Witness ==
    /\ example = "env"
    /\ env.call # << >> /\ env.call[1].adds = 1
    /\ env.this_module # 0
    /\ env.last # << >> /\ env.last[1].op \in EnvOps
    /\ env.last[1].result = "err" /\ env.last[1].adds = 1
    /\ ghost.creator = {}

\* The entry that registers the key of call c for the process that held it.
HeldEntry(c) == [name |-> c.name, version |-> c.query.parts, process |-> c.held]

\* C25: unregister_name of a key (a name and a semantic version) that is not
\* registered returns NotFound and leaves the registry as it was; of a
\* registered key it returns Ok and removes the entry of that key and no
\* other, so that the exact lookup of the key then returns None.
C25_UnregisterRemovesExactlyTheKey ==
    /\ [](\A c \in {last[i] : i \in DOMAIN last} :
             (c.op = "unregister_name" /\ IsSemver(c.query.parts)) =>
                /\ c.result.tag = (IF c.held = 0 THEN "NotFound" ELSE "Ok")
                /\ lookup_name(reg, c.name, c.query) = Result("None", 0)
                /\ \A e \in reg : ~(e.name = c.name /\ e.version = c.query.parts))
    /\ [][(last' # last /\ last'[1].op = "unregister_name") =>
            LET c == last'[1]
            IN  /\ c.held = Held(reg, c.name, c.query.parts)
                /\ c.result.tag # "Ok" => reg' = reg
                /\ c.result.tag = "Ok" =>
                      /\ HeldEntry(c) \in reg
                      /\ reg' = reg \ {HeldEntry(c)}]_vars

\* A key has just been unregistered with another version of its name and an
\* entry of another name still registered.
C25_Witness ==
    /\ last # << >>
    /\ last[1].op = "unregister_name"
    /\ last[1].result.tag = "Ok"
    /\ \E e \in reg : e.name = last[1].name /\ e.version # last[1].query.parts
    /\ \E e \in reg : e.name # last[1].name

====
